---- MODULE Spec2Model ----
(***************************************************************************)
(* Retro-Radio (retro_radio.py): a rotary encoder position selects a       *)
(* radio station from playlist.csv; the position is kept in position.py.   *)
(*                                                                         *)
(* Python values are modelled as follows.  A list is a sequence, read and  *)
(* written through PyHas/PyGet/PySet, which index from 0 and count a       *)
(* negative index from the end, as Python does.  A text (a csv field, the  *)
(* number written to position.py) is a sequence of one-character strings.  *)
(* A csv row is <<lower, upper, url>>.  A name that is not bound yet       *)
(* (station_list, posToStation, the media of the player) holds <<>>.       *)
(***************************************************************************)
EXTENDS Integers, Sequences, FiniteSets, TLC

\* ---------------------------------------------------------------- bounds
\* The dial of the source has 1021 positions (MAX_POS = 1020); the model
\* keeps the code and shortens the dial.
DialTop == 3
\* Largest number of rows of a playlist.csv given to the loader alone.
MaxRows == 2
\* Largest number of rows of a playlist.csv the whole radio is run with.
MaxRunRows == 2
\* Largest lower / upper boundary of a row the whole radio is run with.
MaxRunBound == 1

\* ------------------------------------------------------------- constants
MIN_POS == 0
MAX_POS == DialTop
NOISE_FILE == <<"rauschen.mp3">>
\* The stream url in column 2 of row i of playlist.csv (i counted from 0).
StreamUrl(i) == <<"stream", i>>

\* ----------------------------------------------------------- Python lists
PyLen(list) == Len(list)
PyHas(list, i) == i >= -Len(list) /\ i < Len(list)
PyIdx(list, i) == IF i < 0 THEN i + Len(list) + 1 ELSE i + 1
PyGet(list, i) == list[PyIdx(list, i)]
PySet(list, i, v) == [list EXCEPT ![PyIdx(list, i)] = v]

\* ------------------------------------------------------ int() and str()
Digits == <<"0", "1", "2", "3", "4", "5", "6", "7", "8", "9">>
IsDigit(c) == \E d \in 1..10 : Digits[d] = c
DigitVal(c) == (CHOOSE d \in 1..10 : Digits[d] = c) - 1

RECURSIVE NatStr(_)
NatStr(n) == IF n < 10 THEN <<Digits[n + 1]>>
             ELSE NatStr(n \div 10) \o <<Digits[(n % 10) + 1]>>

\* str(n): the decimal text of an integer.
py_str(n) == IF n < 0 THEN <<"-">> \o NatStr(-n) ELSE NatStr(n)

RECURSIVE DigitsVal(_)
DigitsVal(s) == IF s = <<>> THEN 0
                ELSE DigitsVal(SubSeq(s, 1, Len(s) - 1)) * 10 + DigitVal(s[Len(s)])

Unsigned(s) == IF s # <<>> /\ s[1] \in {"-", "+"} THEN Tail(s) ELSE s
\* int(s) succeeds on an optional sign followed by digits, and raises
\* ValueError on any other text.
IsIntText(s) == /\ Unsigned(s) # <<>>
                /\ \A k \in 1..Len(Unsigned(s)) : IsDigit(Unsigned(s)[k])
py_int(s) == IF s # <<>> /\ s[1] = "-" THEN -DigitsVal(Unsigned(s))
             ELSE DigitsVal(Unsigned(s))

\* exit() without an argument raises SystemExit(None): the process ends
\* with status 0.  An uncaught exception in the main thread ends it with 1.
ExitStatus(args) == IF args = <<>> THEN 0 ELSE args[1]
UncaughtStatus == ExitStatus(<<1>>)

\* --------------------------------------------------------------- read_csv
NoError == <<>>

\* The try block of read_csv on one row: both boundaries converted, or the
\* except branch taken.
RowParses(row) == IsIntText(row[1]) /\ IsIntText(row[2])
ConvertRow(row) == <<py_int(row[1]), py_int(row[2]), row[3]>>

\* The rows converted before the first row that does not convert (the loop
\* of read_csv stops there), and the index of that row, or -1.
RECURSIVE FirstBadRow(_, _)
FirstBadRow(rows, i) ==
    IF i >= Len(rows) THEN -1
    ELSE IF ~RowParses(rows[i + 1]) THEN i
    ELSE FirstBadRow(rows, i + 1)

ConvertRows(rows) == [k \in 1..Len(rows) |-> ConvertRow(rows[k])]

\* SanityLine with > where the code has >= : touching ranges pass.
SanityLineTouch(stations, i) ==
    IF PyGet(stations, i)[1] > PyGet(stations, i)[2]
    THEN [kind |-> "boundaries", lines |-> <<i>>]
    ELSE IF PyGet(stations, i)[2] > PyGet(stations, i + 1)[1]
    THEN [kind |-> "boundaries", lines |-> <<i, i + 1>>]
    ELSE NoError

\* One pass of the loop of csv_sanity_check, for line i: the message it
\* prints before exit(), or NoError.
SanityLine(stations, i) ==
    IF PyGet(stations, i)[1] > PyGet(stations, i)[2]
    THEN [kind |-> "boundaries", lines |-> <<i>>]
    ELSE IF PyGet(stations, i)[2] >= PyGet(stations, i + 1)[1]
    THEN [kind |-> "boundaries", lines |-> <<i, i + 1>>]
    ELSE NoError

\* The lines the loop of csv_sanity_check visits: range(0, len(stations) - 1).
SanityRange(stations) == 0..(PyLen(stations) - 2)

RECURSIVE SanityFrom(_, _)
SanityFrom(stations, i) ==
    IF i \notin SanityRange(stations) THEN NoError
    ELSE IF SanityLine(stations, i) # NoError THEN SanityLine(stations, i)
    ELSE SanityFrom(stations, i + 1)

csv_sanity_check(stations) == SanityFrom(stations, 0)

\* AppendNoise with the noise record put first instead of last.
AppendNoiseFirst(stations) == <<<<-1, -1, NOISE_FILE>>>> \o stations

\* The record appended after the check.
NoiseRow == <<-1, -1, NOISE_FILE>>
AppendNoise(stations) == Append(stations, NoiseRow)

\* read_csv with the except branch skipping the row instead of exiting.
read_csvSkip(rows) ==
    LET kept == SelectSeq(rows, RowParses)
    IN IF csv_sanity_check(ConvertRows(kept)) # NoError
       THEN [error |-> csv_sanity_check(ConvertRows(kept)), stations |-> <<>>]
       ELSE [error |-> NoError, stations |-> AppendNoise(ConvertRows(kept))]

\* read_csv(): [error, stations]; stations is what the function returns and
\* is <<>> when it exits instead.
read_csv(rows) ==
    IF FirstBadRow(rows, 0) # -1
    THEN [error |-> [kind |-> "integers", lines |-> <<FirstBadRow(rows, 0)>>],
          stations |-> <<>>]
    ELSE IF csv_sanity_check(ConvertRows(rows)) # NoError
    THEN [error |-> csv_sanity_check(ConvertRows(rows)), stations |-> <<>>]
    ELSE [error |-> NoError, stations |-> AppendNoise(ConvertRows(rows))]

\* ---------------------------------------------------- populate_postostation
Sentinel == -1

\* The inner loop, for p in range(low, upp + 1): pos2station[p] = line_nr.
\* The assignment raises IndexError when p is no index of the list.
RECURSIVE AssignRange(_, _, _, _)
AssignRange(arr, low, upp, line_nr) ==
    IF low > upp THEN [ok |-> TRUE, list |-> arr]
    ELSE IF ~PyHas(arr, low) THEN [ok |-> FALSE, list |-> arr]
    ELSE AssignRange(PySet(arr, low, line_nr), low + 1, upp, line_nr)

\* The outer loop, for line_nr in range(l - 1).
RECURSIVE PopulateFrom(_, _, _)
PopulateFrom(arr, sl, line_nr) ==
    IF line_nr >= PyLen(sl) - 1 THEN [ok |-> TRUE, list |-> arr]
    ELSE LET r == AssignRange(arr, PyGet(sl, line_nr)[1], PyGet(sl, line_nr)[2], line_nr)
         IN IF r.ok THEN PopulateFrom(r.list, sl, line_nr + 1) ELSE r

populate_postostation(sl) ==
    PopulateFrom([p \in 1..(MAX_POS + 1 - MIN_POS) |-> Sentinel], sl, 0)

\* ------------------------------------------------------------ the inputs
\* A playlist.csv: row i holds the two boundary fields fields[i + 1] and
\* StreamUrl(i).
TableOf(fields) ==
    [i \in DOMAIN fields |-> <<fields[i][1], fields[i][2], StreamUrl(i - 1)>>]

NotANumber == <<"x">>
LoadTexts == {py_str(b) : b \in -1..(MAX_POS + 1)} \cup {NotANumber}
RunTexts == {py_str(b) : b \in 0..MaxRunBound} \cup {NotANumber}

\* ------------------------------------------------------------- the state
VARIABLES
    rawTable,      \* the rows of playlist.csv
    slot,          \* the number text in position.py; <<>> once truncated
    pos,           \* global pos
    station_list,  \* global station_list
    posToStation,  \* global posToStation
    pcMain,        \* where the main thread is in the module's statements
    exitStatus,    \* <<>> while the process runs, <<status>> once it ended
    loadError,     \* the message printed before exit(), or NoError
    decoderOn,     \* rotary_encoder.decoder(...) has registered the callback
    buttonOn,      \* GPIO.add_event_detect(...) has registered the callback
    playerInit,    \* the globals instance and player are bound
    media,         \* the media set in the player
    playing,       \* player.is_playing()
    mainUrl,       \* the argument of the play() call of the main thread
    pcEnc,         \* where the encoder callback thread is
    encUrl,        \* the argument of the play() call of the encoder callback
    pcBtn,         \* where the button callback thread is
    cbErrors,      \* the callbacks that ended in an uncaught exception
    encFrom,       \* history: pos when the last encoder callback began
    encWay,        \* history: the way the last encoder callback was given
    encPlays,      \* history: the urls the last encoder callback gave play()
    slotWritten,   \* history: position.py was opened for writing
    sinkUsed,      \* history: the player was given a command (stop,
                   \*          set_media or play)
    startPos,      \* history: the start_position the process imported
    encLost,       \* history: the steps delivered and not clamped, summed,
                   \*          less the distance pos moved in them
    encOps,        \* history: the methods of player the last play() of the
                   \*          encoder callback called
    mainOps        \* history: the methods of player the play() of the main
                   \*          thread called

files == <<rawTable, slot>>
tables == <<station_list, posToStation>>
mainv == <<pcMain, exitStatus, loadError, decoderOn, buttonOn, mainUrl,
          startPos, mainOps>>
sink == <<playerInit, media, playing, sinkUsed>>
encv == <<pcEnc, encUrl, encFrom, encWay, encPlays, encLost, encOps>>
vars == <<rawTable, slot, pos, station_list, posToStation, pcMain, exitStatus,
          loadError, decoderOn, buttonOn, playerInit, media, playing, mainUrl,
          pcEnc, encUrl, pcBtn, cbErrors, encFrom, encWay, encPlays,
          slotWritten, sinkUsed, startPos, encLost, encOps, mainOps>>

NoMedia == <<>>
Alive == exitStatus = <<>>

\* from position import start_position: position.py holds
\* "start_position = " followed by the text of the slot.
\* The import succeeds when the text is an integer literal: int() would take
\* it, and it has no leading zero unless it is all zeros.
Importable(text) ==
    /\ IsIntText(text)
    /\ \/ Unsigned(text)[1] # "0"
       \/ \A k \in 1..Len(Unsigned(text)) : Unsigned(text)[k] = "0"
start_position(text) == py_int(text)

\* The state in which the module's statements begin, after the import of
\* line 24 and pos = start_position.
Started(table, text) ==
    /\ rawTable = table
    /\ slot = text
    /\ pos = start_position(text)
    /\ station_list = <<>>
    /\ posToStation = <<>>
    /\ pcMain = "read_csv"
    /\ exitStatus = <<>>
    /\ loadError = NoError
    /\ decoderOn = FALSE
    /\ buttonOn = FALSE
    /\ playerInit = FALSE
    /\ media = NoMedia
    /\ playing = FALSE
    /\ mainUrl = NoMedia
    /\ pcEnc = "idle"
    /\ encUrl = NoMedia
    /\ pcBtn = "idle"
    /\ cbErrors = {}
    /\ encFrom = start_position(text)
    /\ encWay = 0
    /\ encPlays = <<>>
    /\ slotWritten = FALSE
    /\ sinkUsed = FALSE
    /\ startPos = start_position(text)
    /\ encLost = 0
    /\ encOps = <<>>
    /\ mainOps = <<>>

Init == \E k \in 0..MaxRunRows : \E fields \in [1..k -> RunTexts \X RunTexts] :
            \E p \in MIN_POS..MAX_POS : Started(TableOf(fields), py_str(p))

InitLoad == \E k \in 0..MaxRows : \E fields \in [1..k -> LoadTexts \X LoadTexts] :
                Started(TableOf(fields), py_str(MIN_POS))

\* ------------------------------------------------------- the main thread
\* station_list = read_csv()
MainReadCsv ==
    /\ Alive /\ pcMain = "read_csv"
    /\ LET r == read_csv(rawTable)
       IN IF r.error = NoError
          THEN /\ station_list' = r.stations
               /\ pcMain' = "populate"
               /\ UNCHANGED <<exitStatus, loadError>>
          ELSE /\ loadError' = r.error
               /\ exitStatus' = <<ExitStatus(<<>>)>>
               /\ pcMain' = "exited"
               /\ UNCHANGED station_list
    /\ UNCHANGED <<files, pos, posToStation, decoderOn, buttonOn, mainUrl,
                   sink, encv, pcBtn, cbErrors, slotWritten, startPos,
                   mainOps>>

\* posToStation = populate_postostation(station_list)
MainPopulate ==
    /\ Alive /\ pcMain = "populate"
    /\ LET r == populate_postostation(station_list)
       IN IF r.ok
          THEN /\ posToStation' = r.list
               /\ pcMain' = "decoder"
               /\ UNCHANGED exitStatus
          ELSE /\ exitStatus' = <<UncaughtStatus>>
               /\ pcMain' = "crashed"
               /\ UNCHANGED posToStation
    /\ UNCHANGED <<files, pos, station_list, loadError, decoderOn, buttonOn,
                   mainUrl, sink, encv, pcBtn, cbErrors, slotWritten, startPos,
                   mainOps>>

\* decoder = rotary_encoder.decoder(pi, DT_PIN, CLK_PIN, callback_rotary_encoder)
MainDecoder ==
    /\ Alive /\ pcMain = "decoder"
    /\ decoderOn' = TRUE
    /\ pcMain' = "button"
    /\ UNCHANGED <<files, pos, tables, exitStatus, loadError, buttonOn, mainUrl,
                   sink, encv, pcBtn, cbErrors, slotWritten, startPos,
                   mainOps>>

\* GPIO.add_event_detect(SD_BUTTON, GPIO.RISING, callback=callback_button, ...)
MainButton ==
    /\ Alive /\ pcMain = "button"
    /\ buttonOn' = TRUE
    /\ pcMain' = "vlc"
    /\ UNCHANGED <<files, pos, tables, exitStatus, loadError, decoderOn, mainUrl,
                   sink, encv, pcBtn, cbErrors, slotWritten, startPos,
                   mainOps>>

\* instance = vlc.Instance(...); player = instance.media_player_new()
MainVlc ==
    /\ Alive /\ pcMain = "vlc"
    /\ playerInit' = TRUE
    /\ pcMain' = "play"
    /\ UNCHANGED <<files, pos, tables, exitStatus, loadError, decoderOn, buttonOn,
                   mainUrl, media, playing, sinkUsed, encv, pcBtn, cbErrors,
                   slotWritten, startPos,
                   mainOps>>

\* station_list[posToStation[p]][2]
UrlAt(p) == PyGet(PyGet(station_list, PyGet(posToStation, p)), 2)

\* play(station_list[posToStation[pos]][2]) of the main thread: the argument
\* is evaluated and play() entered; its first statement is player.stop().
MainPlayStop ==
    /\ Alive /\ pcMain = "play"
    /\ mainUrl' = UrlAt(pos)
    /\ playing' = FALSE
    /\ sinkUsed' = TRUE
    /\ mainOps' = Append(mainOps, "stop")
    /\ pcMain' = "play_media"
    /\ UNCHANGED <<files, pos, tables, exitStatus, loadError, decoderOn, buttonOn,
                   playerInit, media, encv, pcBtn, cbErrors, slotWritten, startPos>>

\* media = instance.media_new(url); player.set_media(media)
MainPlayMedia ==
    /\ Alive /\ pcMain = "play_media"
    /\ media' = mainUrl
    /\ sinkUsed' = TRUE
    /\ mainOps' = Append(mainOps, "set_media")
    /\ pcMain' = "play_play"
    /\ UNCHANGED <<files, pos, tables, exitStatus, loadError, decoderOn, buttonOn,
                   mainUrl, playerInit, playing, encv, pcBtn, cbErrors, slotWritten, startPos>>

\* player.play(), then the main thread sleeps in its loop for ever.
MainPlayPlay ==
    /\ Alive /\ pcMain = "play_play"
    /\ playing' = (media # NoMedia)
    /\ sinkUsed' = TRUE
    /\ mainOps' = Append(mainOps, "play")
    /\ pcMain' = "loop"
    /\ UNCHANGED <<files, pos, tables, exitStatus, loadError, decoderOn, buttonOn,
                   mainUrl, playerInit, media, encv, pcBtn, cbErrors, slotWritten, startPos>>

\* ------------------------------------------------ callback_rotary_encoder
Ways == {-1, 0, 1}

\* Clamp with < where the code has <= at the lower end.
ClampLowOff(p, way) ==
    IF (p >= MAX_POS /\ way = 1) \/ (p < MIN_POS /\ way = -1) THEN 0 ELSE way

\* Clamp turning the dial over at its ends instead of stopping.
ClampWrap(p, way) ==
    IF p >= MAX_POS /\ way = 1 THEN MIN_POS - p
    ELSE IF p <= MIN_POS /\ way = -1 THEN MAX_POS - p
    ELSE way

\* "makes sure pos does not go beyond min/max position": the way after the
\* first if of the callback.
Clamp(p, way) ==
    IF (p >= MAX_POS /\ way = 1) \/ (p <= MIN_POS /\ way = -1) THEN 0 ELSE way

\* StationChanged comparing the positions instead of their stations.
StationChangedMoved(p, q) == p # q

\* posToStation[pos] != posToStation[pos + way]
StationChanged(p, q) == PyGet(posToStation, p) # PyGet(posToStation, q)

\* EncStep clearing the cell of the position it leaves in posToStation.
EncStepMarks(way) ==
    /\ Alive /\ decoderOn /\ pcEnc = "idle"
    /\ encFrom' = pos
    /\ encWay' = way
    /\ encOps' = <<>>
    /\ LET w == Clamp(pos, way)
       IN IF ~PyHas(posToStation, pos) \/ ~PyHas(posToStation, pos + w)
          THEN /\ cbErrors' = cbErrors \cup {"encoder"}
               /\ encPlays' = <<>>
               /\ UNCHANGED <<pos, pcEnc, encUrl>>
          ELSE /\ pos' = pos + w
               /\ IF StationChanged(pos, pos + w)
                  THEN /\ encUrl' = UrlAt(pos + w)
                       /\ encPlays' = <<UrlAt(pos + w)>>
                       /\ IF playerInit
                          THEN pcEnc' = "play_stop" /\ UNCHANGED cbErrors
                          ELSE /\ cbErrors' = cbErrors \cup {"encoder"}
                               /\ UNCHANGED pcEnc
                  ELSE /\ pcEnc' = "write_open"
                       /\ encPlays' = <<>>
                       /\ UNCHANGED <<encUrl, cbErrors>>
    /\ encLost' = IF Clamp(pos, way) = way THEN encLost + way - (pos' - pos)
                  ELSE encLost
    /\ posToStation' = IF PyHas(posToStation, pos)
                       THEN PySet(posToStation, pos, Sentinel) ELSE posToStation
    /\ UNCHANGED <<files, station_list, mainv, sink, pcBtn, slotWritten>>

\* The callback up to its first call that can block: the clamp, the
\* comparison, pos += way and, in the first branch, the entry of play(),
\* whose first statement raises NameError while player is not bound.  An
\* index outside posToStation raises IndexError before pos is assigned.
EncStep(way) ==
    /\ Alive /\ decoderOn /\ pcEnc = "idle"
    /\ encFrom' = pos
    /\ encWay' = way
    /\ encOps' = <<>>
    /\ LET w == Clamp(pos, way)
       IN IF ~PyHas(posToStation, pos) \/ ~PyHas(posToStation, pos + w)
          THEN /\ cbErrors' = cbErrors \cup {"encoder"}
               /\ encPlays' = <<>>
               /\ UNCHANGED <<pos, pcEnc, encUrl>>
          ELSE /\ pos' = pos + w
               /\ IF StationChanged(pos, pos + w)
                  THEN /\ encUrl' = UrlAt(pos + w)
                       /\ encPlays' = <<UrlAt(pos + w)>>
                       /\ IF playerInit
                          THEN pcEnc' = "play_stop" /\ UNCHANGED cbErrors
                          ELSE /\ cbErrors' = cbErrors \cup {"encoder"}
                               /\ UNCHANGED pcEnc
                  ELSE /\ pcEnc' = "write_open"
                       /\ encPlays' = <<>>
                       /\ UNCHANGED <<encUrl, cbErrors>>
    /\ encLost' = IF Clamp(pos, way) = way THEN encLost + way - (pos' - pos)
                  ELSE encLost
    /\ UNCHANGED <<files, tables, mainv, sink, pcBtn, slotWritten>>

\* EncPlayStop calling player.stop() only when the player is playing.
EncPlayStopIfPlaying ==
    /\ Alive /\ pcEnc = "play_stop"
    /\ playing' = FALSE
    /\ sinkUsed' = (sinkUsed \/ playing)
    /\ encOps' = IF playing THEN Append(encOps, "stop") ELSE encOps
    /\ pcEnc' = "play_media"
    /\ UNCHANGED <<files, pos, tables, mainv, playerInit, media, encUrl, encFrom,
                   encWay, encPlays, pcBtn, cbErrors, slotWritten, encLost>>

\* play(url): player.stop()
EncPlayStop ==
    /\ Alive /\ pcEnc = "play_stop"
    /\ playing' = FALSE
    /\ sinkUsed' = TRUE
    /\ encOps' = Append(encOps, "stop")
    /\ pcEnc' = "play_media"
    /\ UNCHANGED <<files, pos, tables, mainv, playerInit, media, encUrl, encFrom,
                   encWay, encPlays, pcBtn, cbErrors, slotWritten, encLost>>

\* play(url): media = instance.media_new(url); player.set_media(media)
EncPlayMedia ==
    /\ Alive /\ pcEnc = "play_media"
    /\ media' = encUrl
    /\ sinkUsed' = TRUE
    /\ encOps' = Append(encOps, "set_media")
    /\ pcEnc' = "play_play"
    /\ UNCHANGED <<files, pos, tables, mainv, playerInit, playing, encUrl, encFrom,
                   encWay, encPlays, pcBtn, cbErrors, slotWritten, encLost>>

\* play(url): player.play()
EncPlayPlay ==
    /\ Alive /\ pcEnc = "play_play"
    /\ playing' = (media # NoMedia)
    /\ sinkUsed' = TRUE
    /\ encOps' = Append(encOps, "play")
    /\ pcEnc' = "write_open"
    /\ UNCHANGED <<files, pos, tables, mainv, playerInit, media, encUrl, encFrom,
                   encWay, encPlays, pcBtn, cbErrors, slotWritten, encLost>>

\* ---------------------------------------------------- write_position_files
\* EncWriteOpen opening the file without truncating it (mode "a").
EncWriteOpenKeep ==
    /\ Alive /\ pcEnc = "write_open"
    /\ slot' = slot
    /\ slotWritten' = TRUE
    /\ pcEnc' = "write_data"
    /\ UNCHANGED <<rawTable, pos, tables, mainv, sink, encUrl, encFrom, encWay,
                   encPlays, pcBtn, cbErrors, encLost,
                   encOps>>

\* open(POSITION_PY_FILE, "w") truncates the file.
EncWriteOpen ==
    /\ Alive /\ pcEnc = "write_open"
    /\ slot' = <<>>
    /\ slotWritten' = TRUE
    /\ pcEnc' = "write_data"
    /\ UNCHANGED <<rawTable, pos, tables, mainv, sink, encUrl, encFrom, encWay,
                   encPlays, pcBtn, cbErrors, encLost,
                   encOps>>

\* write('...start_position = ' + str(pos)), at the end of what the file
\* holds, and the close of the with block.
EncWriteData ==
    /\ Alive /\ pcEnc = "write_data"
    /\ slot' = slot \o py_str(pos)
    /\ pcEnc' = "idle"
    /\ UNCHANGED <<rawTable, pos, tables, mainv, sink, encUrl, encFrom, encWay,
                   encPlays, pcBtn, cbErrors, slotWritten, encLost,
                   encOps>>

\* ---------------------------------------------------------- callback_button
\* if player.is_playing() == 1: NameError while player is not bound.
BtnPress ==
    /\ Alive /\ buttonOn /\ pcBtn = "idle"
    /\ IF playerInit
       THEN /\ pcBtn' = IF playing THEN "stop" ELSE "play"
            /\ UNCHANGED cbErrors
       ELSE /\ cbErrors' = cbErrors \cup {"button"}
            /\ UNCHANGED pcBtn
    /\ UNCHANGED sinkUsed
    /\ UNCHANGED <<files, pos, tables, mainv, playerInit, media, playing, encv,
                   slotWritten>>

\* player.stop()
BtnStop ==
    /\ Alive /\ pcBtn = "stop"
    /\ playing' = FALSE
    /\ sinkUsed' = TRUE
    /\ pcBtn' = "idle"
    /\ UNCHANGED <<files, pos, tables, mainv, playerInit, media, encv, cbErrors,
                   slotWritten>>

\* BtnPlay starting the station of the position instead of the media set.
BtnPlayReload ==
    /\ Alive /\ pcBtn = "play"
    /\ media' = UrlAt(pos)
    /\ playing' = TRUE
    /\ sinkUsed' = TRUE
    /\ pcBtn' = "idle"
    /\ UNCHANGED <<files, pos, tables, mainv, playerInit, encv, cbErrors,
                   slotWritten>>

\* player.play(): plays the media that is set, if any.
BtnPlay ==
    /\ Alive /\ pcBtn = "play"
    /\ playing' = (media # NoMedia)
    /\ sinkUsed' = TRUE
    /\ pcBtn' = "idle"
    /\ UNCHANGED <<files, pos, tables, mainv, playerInit, media, encv, cbErrors,
                   slotWritten>>

\* ------------------------------------------------------------ the process
\* The process is ended from outside (power off, kill) at any point and the
\* module is run again: position.py is imported as it was left.  A file
\* that holds no number makes the import fail.
Restart ==
    /\ rawTable' = rawTable
    /\ slot' = slot
    /\ station_list' = <<>>
    /\ posToStation' = <<>>
    /\ loadError' = NoError
    /\ decoderOn' = FALSE
    /\ buttonOn' = FALSE
    /\ playerInit' = FALSE
    /\ media' = NoMedia
    /\ playing' = FALSE
    /\ mainUrl' = NoMedia
    /\ pcEnc' = "idle"
    /\ encUrl' = NoMedia
    /\ pcBtn' = "idle"
    /\ cbErrors' = {}
    /\ encWay' = 0
    /\ encPlays' = <<>>
    /\ slotWritten' = FALSE
    /\ sinkUsed' = FALSE
    /\ encLost' = 0
    /\ encOps' = <<>>
    /\ mainOps' = <<>>
    /\ IF Importable(slot)
       THEN /\ pos' = start_position(slot)
            /\ encFrom' = start_position(slot)
            /\ startPos' = start_position(slot)
            /\ pcMain' = "read_csv"
            /\ exitStatus' = <<>>
       ELSE /\ pcMain' = "crashed"
            /\ exitStatus' = <<UncaughtStatus>>
            /\ UNCHANGED <<pos, encFrom, startPos>>

Next ==
    \/ MainReadCsv \/ MainPopulate \/ MainDecoder \/ MainButton \/ MainVlc
    \/ MainPlayStop \/ MainPlayMedia \/ MainPlayPlay
    \/ \E way \in Ways : EncStep(way)
    \/ EncPlayStop \/ EncPlayMedia \/ EncPlayPlay
    \/ EncWriteOpen \/ EncWriteData
    \/ BtnPress \/ BtnStop \/ BtnPlay
    \/ Restart

Spec == Init /\ [][Next]_vars

NextLoad == MainReadCsv \/ MainPopulate

SpecLoad == InitLoad /\ [][NextLoad]_vars

\* ------------------------------------------------------------- the claims
\* The station record the resolver gives for position p.
Resolved(p) == PyGet(station_list, PyGet(posToStation, p))
Url(record) == record[3]
Positions == MIN_POS..MAX_POS
InPlay == pcEnc \in {"play_stop", "play_media", "play_play"}
Rejected == pcMain = "exited" /\ loadError # NoError
\* read_csv() has run: the main thread is past it, and did not end in the
\* import of position.py before it.
LoadRan == pcMain # "read_csv" /\ ~(pcMain = "crashed" /\ station_list = <<>>)
Accepted == LoadRan /\ loadError = NoError /\ station_list # <<>>
\* The lines of the real records of the loaded table.
RealLines == 0..(PyLen(station_list) - 2)
\* The lines of playlist.csv, and what its rows say before they are loaded.
RawLines == 0..(Len(rawTable) - 1)
AllParse == \A i \in RawLines : RowParses(rawTable[i + 1])
RawLow(i) == py_int(rawTable[i + 1][1])
RawUpp(i) == py_int(rawTable[i + 1][2])
RawInverted(i) == RawLow(i) > RawUpp(i)
RawOverlap(i) == RawUpp(i) >= RawLow(i + 1)

\* C1: an encoder step calls play() if and only if the station resolved at
\* the position after the step differs from the one resolved at the position
\* before it; it then calls play() once, with the stream url of the station
\* at the new position.  A step that stays with one station (or with the
\* noise) calls no method of the player.
C1_PlayIffStationChanges ==
    (Alive /\ decoderOn) =>
        /\ encPlays = IF Resolved(encFrom) # Resolved(pos)
                      THEN <<Url(Resolved(pos))>> ELSE <<>>
        /\ (encPlays = <<>> => ~InPlay)
        /\ (InPlay => encUrl = Url(Resolved(pos)))

\* C1 witness: a step from the noise onto the station of line 0 has been
\* handled to its end, the player being there.
C1_Witness ==
    /\ Alive /\ pcEnc = "idle" /\ playerInit /\ cbErrors = {}
    /\ encWay # 0
    /\ Resolved(encFrom) = NoiseRow
    /\ encPlays = <<StreamUrl(0)>>
    /\ media = StreamUrl(0)

\* C2: with a start position inside [MIN_POS, MAX_POS], pos stays inside
\* [MIN_POS, MAX_POS] whatever steps arrive, and position.py never holds a
\* number outside it, so that the next start is inside it again.
C2_PositionInBounds ==
    /\ Alive => pos \in Positions
    /\ slot # <<>> => (IsIntText(slot) /\ py_int(slot) \in Positions)

\* C2 witness: a step of -1 at MIN_POS has been handled and written.
C2_Witness ==
    /\ Alive /\ pcEnc = "idle" /\ slotWritten
    /\ encFrom = MIN_POS /\ encWay = -1
    /\ slot = py_str(MIN_POS)

\* C3: a step of +1 at MAX_POS, and a step of -1 at MIN_POS, leaves pos
\* where it was and calls neither play() nor any method of the player.
C3_ClampAtEnds ==
    (Alive /\ ((encFrom = MAX_POS /\ encWay = 1) \/ (encFrom = MIN_POS /\ encWay = -1)))
        => (pos = encFrom /\ encPlays = <<>> /\ ~InPlay)

\* C3 witness: a step of +1 at MAX_POS has been handled to its end.
C3_Witness ==
    /\ Alive /\ pcEnc = "idle" /\ slotWritten
    /\ encFrom = MAX_POS /\ encWay = 1 /\ pos = MAX_POS

\* C4: whenever no encoder callback is running, position.py holds pos.
C4_SlotHoldsPosition ==
    (Alive /\ pcEnc = "idle") => (IsIntText(slot) /\ py_int(slot) = pos)

\* C5: for a table that load accepts, populate_postostation ends, and
\* cell p holds line i exactly when lower_i <= p <= upper_i.
C5_ResolverMatchesRanges ==
    (Accepted /\ pcMain # "populate") =>
        /\ pcMain # "crashed"
        /\ \A p \in Positions : \A i \in RealLines :
              (PyGet(posToStation, p) = i)
                  <=> (PyGet(station_list, i)[1] <= p /\ p <= PyGet(station_list, i)[2])

\* C6: once posToStation is built, station_list[posToStation[p]] exists for
\* every position p; it is the noise record, which is the last one, when the
\* cell holds the sentinel, and the record of a line of playlist.csv
\* otherwise.
C6_ResolverTotal ==
    posToStation # <<>> =>
        /\ PyGet(station_list, PyLen(station_list) - 1) = NoiseRow
        /\ \A p \in Positions :
              /\ PyHas(posToStation, p)
              /\ PyHas(station_list, PyGet(posToStation, p))
              /\ IF PyGet(posToStation, p) = Sentinel
                 THEN Resolved(p) = NoiseRow
                 ELSE /\ PyGet(posToStation, p) \in RealLines
                      /\ Resolved(p) = ConvertRow(rawTable[PyGet(posToStation, p) + 1])

\* C6 witness: a resolver with a cell of a station and a cell of noise.
C6_Witness ==
    /\ posToStation # <<>>
    /\ \E p \in Positions : PyGet(posToStation, p) = Sentinel
    /\ \E p \in Positions : PyGet(posToStation, p) = 1

C8_InvertedRejected ==
    /\ Accepted => \A i \in RealLines :
                      PyGet(station_list, i)[1] <= PyGet(station_list, i)[2]
    /\ (LoadRan /\ AllParse /\ \E i \in RawLines : RawInverted(i))
          => Rejected

\* C9: a load that fails ends the process with a status other than 0.
C9_LoadFailureExitsNonzero ==
    loadError # NoError => (exitStatus # <<>> /\ exitStatus[1] # 0)

\* C10: a playlist.csv with a boundary that is no integer makes read_csv
\* exit at the first such row: no table and no resolver exist, no callback
\* is registered, the player is given no command and position.py is not
\* opened for writing.
C10_MalformedAbortsLoad ==
    (LoadRan /\ ~AllParse) =>
        /\ Rejected
        /\ loadError = [kind |-> "integers", lines |-> <<FirstBadRow(rawTable, 0)>>]
        /\ station_list = <<>> /\ posToStation = <<>>
        /\ ~decoderOn /\ ~buttonOn
        /\ ~sinkUsed /\ ~slotWritten

\* C10 witness: the second row of playlist.csv is the one that fails.
C10_Witness ==
    /\ Rejected /\ Len(rawTable) = 2
    /\ RowParses(rawTable[1]) /\ ~RowParses(rawTable[2])
    /\ loadError = [kind |-> "integers", lines |-> <<1>>]

\* The order of the statements of play(): the methods of player it calls.
PlayOrder == <<"stop", "set_media", "play">>
IsPrefix(a, b) == Len(a) <= Len(b) /\ a = SubSeq(b, 1, Len(a))
SlotHolds(p) == Importable(slot) /\ start_position(slot) = p
ButtonStep == BtnPress \/ BtnStop \/ BtnPlay

\* C11: after a load that succeeded the main thread calls play() once, with
\* the stream url of the station resolved at the position it imported from
\* position.py, and the player is given no command before that call.
C11_StartupPlaysLoadedStation ==
    Alive =>
        /\ pcMain \in {"read_csv", "populate", "decoder", "button", "vlc", "play"}
              => (~sinkUsed /\ mainOps = <<>>)
        /\ pcMain \in {"play_media", "play_play", "loop"}
              => (mainUrl = Url(Resolved(startPos)) /\ IsPrefix(mainOps, PlayOrder))
        /\ pcMain = "loop" => mainOps = PlayOrder

\* C12: every play() calls player.stop() first, then sets the media, then
\* calls player.play(); the stop is called whatever the player is doing and
\* whatever the url is, by the encoder callback and by the main thread.
C12_StopThenStart ==
    /\ IsPrefix(encOps, PlayOrder) /\ IsPrefix(mainOps, PlayOrder)
    /\ pcEnc = "play_stop" => encOps = <<>>
    /\ pcEnc = "play_media" => encOps = <<"stop">>
    /\ pcEnc = "play_play" => encOps = <<"stop", "set_media">>
    /\ (pcEnc \in {"write_open", "write_data"} /\ encPlays # <<>>) => encOps = PlayOrder
    /\ (Alive /\ pcMain = "play_media") => mainOps = <<"stop">>
    /\ (Alive /\ pcMain = "play_play") => mainOps = <<"stop", "set_media">>
    /\ (Alive /\ pcMain = "loop") => mainOps = PlayOrder

\* C12 witness: the encoder callback has called stop() on its way to the
\* noise file, on a player that never had a media and so never played.
C12_Witness ==
    /\ Alive /\ pcEnc = "play_media" /\ encOps = <<"stop">>
    /\ encUrl = NOISE_FILE /\ media = NoMedia /\ mainOps = <<>>

\* C13: no step is lost.  Whenever no encoder callback is running, pos has
\* moved by the sum of the steps that were delivered and not clamped, and
\* position.py holds pos.
C13_NoStepLost ==
    (Alive /\ pcEnc = "idle") => (encLost = 0 /\ SlotHolds(pos))

\* C14: a step of the button callback leaves pos, position.py, the media of
\* the player, the tables and the encoder callback as they are, and resolves
\* no station; it stops the player when it read is_playing() as true and
\* starts the media that is set otherwise.
C14_ToggleFrame ==
    [][ButtonStep =>
          /\ pos' = pos /\ slot' = slot /\ media' = media
          /\ station_list' = station_list /\ posToStation' = posToStation
          /\ encUrl' = encUrl /\ mainUrl' = mainUrl /\ pcEnc' = pcEnc
          /\ BtnPress => (playing' = playing /\ (pcBtn' = "stop" <=> (playerInit /\ playing)))
          /\ BtnStop => ~playing'
          /\ BtnPlay => (playing' <=> media # NoMedia)]_vars

\* C14 witness: the button callback is between its read of is_playing() and
\* its stop() while the encoder callback is inside play().
C14_Witness ==
    /\ Alive /\ pcBtn = "stop" /\ pcEnc = "play_play" /\ pcMain = "loop"

\* C15: what write_position_files leaves in position.py imports as the pos
\* it wrote, the file holding nothing else; and a process started again
\* while no encoder callback is running, every callback so far having ended
\* without an exception, starts at the pos it had.
C15_SlotRoundTrip ==
    [][/\ EncWriteData => (Importable(slot') /\ start_position(slot') = pos /\ slot' = py_str(pos))
       /\ (Restart /\ Alive /\ pcEnc = "idle" /\ "encoder" \notin cbErrors)
             => (Alive' /\ pos' = pos /\ startPos' = pos)]_vars

\* C15 witness: a step that moved pos has been written to its end.
C15_Witness ==
    /\ Alive /\ pcEnc = "idle" /\ slotWritten /\ cbErrors = {}
    /\ pos # startPos /\ slot = py_str(pos)

\* C16: at every point at which the process can be ended, position.py
\* imports, as the pos after the last callback that ended or as the pos of
\* the callback that is running.
C16_SlotAlwaysLoadable ==
    Alive => (SlotHolds(encFrom) \/ SlotHolds(pos))

\* C17: once the play() of the main thread has ended, whenever no encoder
\* callback is running the media of the player is the stream url of the
\* station resolved at pos.
C17_MediaIsStationOfPos ==
    (Alive /\ pcMain = "loop" /\ pcEnc = "idle") => media = Url(Resolved(pos))

\* C18: no callback runs before player is bound, so that no callback ends
\* in an exception.
C18_NoCallbackBeforePlayer ==
    Alive => cbErrors = {}

\* C19: once built, station_list and posToStation stay as they are for as
\* long as the process runs.
C19_TablesFrozen ==
    [][~Restart =>
          /\ station_list # <<>> => station_list' = station_list
          /\ posToStation # <<>> => posToStation' = posToStation]_vars

\* C19 witness: the tables after steps of the encoder that played a station
\* and wrote position.py, and a press of the button.
C19_Witness ==
    /\ Alive /\ pcMain = "loop" /\ posToStation # <<>>
    /\ pcEnc = "idle" /\ encOps = PlayOrder /\ slotWritten /\ pcBtn = "stop"

====
